---- MODULE Spec2Model ----
(***************************************************************************)
(* esexporter: the scroll export engine of guoyk93/esdump.                 *)
(*                                                                         *)
(* The repository holds three snapshots of the same engine:                *)
(*   "part_002"    src/unnamed/part_002  net/http client, pooled buffers,  *)
(*                 fixed Batch, no release of the scroll                   *)
(*   "exporter.go" src/exporter.go       olivere client, fixed Size,       *)
(*                 deferred deleteScrollID                                 *)
(*   "part_001"    src/unnamed/part_001  as exporter.go plus               *)
(*                 estimateBatchSize (BatchByteSize)                       *)
(* The variable snap says which snapshot a behaviour runs.                 *)
(*                                                                         *)
(* The backend (Elasticsearch) and the handler are the environment: every  *)
(* response and every handler return value is chosen with \E.              *)
(***************************************************************************)
EXTENDS Integers, Sequences, FiniteSets, TLC

(***************************************************************************)
(* Bounds of the model.                                                    *)
(***************************************************************************)
\* page requests (search or continuation) issued in one session
MaxPages == 3
\* elements of one hits.hits array
MaxHits == 2
\* measured average document size (len(res.Body) / Sample) of the probe
MaxAvg == 3
\* multiples of each budget scale tried as BatchByteSize
MaxBudgetUnit == 3

(***************************************************************************)
(* Program constants.                                                      *)
(***************************************************************************)
Sample == 512
FallbackByteSize == 512
MinSize == 10
MaxSize == 10000
DefaultSize == 5000
DefaultBatchByteSize == 10 * 1024 * 1024

Snapshots == {"part_001", "exporter.go", "part_002"}

(***************************************************************************)
(* Error values.  Go compares them by identity (err == ErrUserCancelled),  *)
(* so each distinct error value is a distinct string; "nil" is no error.   *)
(***************************************************************************)
nil == "nil"
ErrUserCancelled == "ErrUserCancelled"
EOF == "io.EOF"
\* any other error value a handler returns
ErrHandler == "ErrHandler"
ErrTransport == "ErrTransport"
ErrStatus == "http request failed"
ErrCopy == "io.Copy failed"
ErrEmptyProbe == "failed to estimate batch size: empty response"
KeyPathNotFoundError == "KeyPathNotFoundError"
ErrNotString == "Value is not a string"
ErrNotNumber == "Value is not a number"
ErrShardsFailed == "_shards.failed != 0"
ErrHitsNotArray == "hits.hits is not array"
ErrMissingSource == "missing _source in hits.hits"

\* what a SourceHandler / DocumentHandler may return: nil, the cancellation
\* sentinel, or any other error value, io.EOF included
HandlerRets == {nil, ErrUserCancelled, EOF, ErrHandler}

(***************************************************************************)
(* JSON values at the paths the engine reads.  t is the jsonparser         *)
(* ValueType ("missing": the path does not exist).                         *)
(***************************************************************************)
JMissing == [t |-> "missing", s |-> "", n |-> 0]
JStr(x) == [t |-> "string", s |-> x, n |-> 0]
JNum(x) == [t |-> "number", s |-> "", n |-> x]
JObj == [t |-> "object", s |-> "", n |-> 0]

Tokens == {"t1", "t2"}

ScrollVals == {JMissing, JNum(1), JStr("")} \cup {JStr(tk) : tk \in Tokens}
ShardVals == {JMissing, JStr("x"), JNum(0), JNum(1)}
TotalVals == {JMissing, JObj, JNum(5), JNum(7)}

\* an element of hits.hits: its _source is an object ("source"), is absent
\* or is not an object
Defects == {"nosource", "badsource"}

\* n elements with an object _source, but for a defect d at position i
Elems(n, i, d) == [k \in 1..n |-> IF k = i THEN d ELSE "source"]

\* The arrays hits.hits may hold: up to MaxHits elements, at most one of them
\* defective (the callback does not look at an element once itErr is set).
HitsArrays ==
  {Elems(n, 0, "source") : n \in 0..MaxHits}
  \cup {Elems(p[1], p[2], d) :
          p \in {q \in (1..MaxHits) \X (1..MaxHits) : q[2] <= q[1]}, d \in Defects}

JHits(t, elems, bad) == [t |-> t, elems |-> elems, bad |-> bad]

\* hits.hits: missing, not an array, or an array; bad says the text of the
\* array is malformed after its elements (ArrayEach stops there with an error)
HitsVals ==
  {JHits("missing", <<>>, FALSE), JHits("object", <<>>, FALSE)}
  \cup {JHits("array", e, b) : e \in HitsArrays, b \in BOOLEAN}

\* hits.hits of a response the engine rejects before it looks at hits.hits
UnreadHits ==
  {JHits("missing", <<>>, FALSE), JHits("object", <<>>, FALSE),
   JHits("array", <<>>, FALSE), JHits("array", Elems(MaxHits, 0, "source"), FALSE)}

Headers == [scroll : ScrollVals, shards : ShardVals, total : TotalVals]

HeaderOk(h) ==
  /\ h.scroll.t = "string"
  /\ h.shards.t = "number" /\ h.shards.n = 0
  /\ h.total.t = "number"

Resp(st, h, hits) ==
  [status |-> st, scroll |-> h.scroll, shards |-> h.shards, total |-> h.total,
   hits |-> hits]

NoHeader == [scroll |-> JMissing, shards |-> JMissing, total |-> JMissing]

\* the outcome of one page request: the call fails, answers with a status
\* other than 200, answers 200 with a body that cannot be read to its end
\* (part_002 reads the body itself), or answers 200 with a body
Responses ==
  {Resp(st, NoHeader, JHits("missing", <<>>, FALSE)) :
     st \in {"neterr", "non200", "copyerr"}}
  \cup UNION {{Resp("ok", h, x) : x \in IF HeaderOk(h) THEN HitsVals ELSE UnreadHits} :
                h \in Headers}

(***************************************************************************)
(* The pooled buffers of part_002.  A bytes.Buffer is modelled by its      *)
(* length, the pool by the lengths of the buffers it holds.                *)
(***************************************************************************)
\* &bytes.Buffer{}: the buffer bufPool.New creates
NewBuffer == 0
\* doRequest holds no buffer
NoBuffer == -1

\* sync.Pool.Get: a new buffer when the pool gives none, or a pooled buffer b,
\* the pool keeping or not keeping another buffer of that length
PoolGet(p) ==
  {[buf |-> NewBuffer, pool |-> p]}
  \cup {[buf |-> b, pool |-> p \ {b}] : b \in p}
  \cup {[buf |-> b, pool |-> p] : b \in p}

PoolPut(p, b) == p \cup {b}

\* the bytes io.Copy reads from the body: the whole body, or a part of it
\* when the read fails
BodyLen(r) == IF r.status = "ok" THEN 2 ELSE 1

\* io.Copy(buffer, res.Body) appends to the buffer
Copy(b, r) == b + BodyLen(r)

\* Reset that keeps the content
ResetKept(b) == b

\* buffer.Reset()
Reset(b) == 0

\* does doRequest reach bufPool.Get: part_002, status 200
Acquires(s, r) == s = "part_002" /\ r.status \in {"ok", "copyerr"}

(***************************************************************************)
(* State.                                                                  *)
(***************************************************************************)
VARIABLES
  snap,       \* the snapshot of the engine this behaviour runs
  pc,         \* position of the single thread of control
  optSize,    \* Options.BatchByteSize (part_001), .Size (exporter.go), .Batch (part_002)
  size,       \* exporter.size (part_001)
  scrollID,   \* exporter.scrollID
  cursor,     \* exporter.cursor (exporter.count in part_002)
  total,      \* total of the page being walked (exporter.total in part_002)
  hitsBuf,    \* the elements of hits.hits ArrayEach has not walked yet
  itErr,      \* itErr of do / doRequest
  itCalled,   \* itCalled of do (itCount > 0 in part_002)
  bufPool,    \* exporter.bufPool (part_002): the lengths of the pooled buffers
  buffer,     \* buffer of doRequest (part_002): its length, NoBuffer when none
  err,        \* the named result err of Do, "none" until Do has one
  delErr,     \* the result of deleteScrollID, which the defer discards
  probe,      \* history: the answer to the size probe
  sent,       \* history: how many requests of each kind were sent
  last,       \* history: the last request sent
  calls,      \* history: the handler invocations, in order
  page,       \* history: what the page response being handled held
  issued      \* history: the token most recently issued by the backend

vars == <<snap, pc, optSize, size, scrollID, cursor, total, hitsBuf, itErr,
          itCalled, bufPool, buffer, err, delErr, probe, sent, last, calls, page,
          issued>>

engine == <<optSize, size, scrollID, cursor, total, hitsBuf, itErr, itCalled,
            bufPool, buffer>>

(***************************************************************************)
(* Requests.  op names the code that built the request; method, path,      *)
(* scroll (is a keep-alive passed) and tok (the scroll_id of the body) are *)
(* what it sends.                                                          *)
(***************************************************************************)
SearchPath == "/index/type/_search"
ScrollPath == "/_search/scroll"

Req(op, method, path, scroll, tok) ==
  [op |-> op, method |-> method, path |-> path, scroll |-> scroll, tok |-> tok]

NoReq == Req("none", "", "", FALSE, "")
Ops == {"probe", "search", "continue", "release"}

Send(r) == sent' = [sent EXCEPT ![r.op] = @ + 1] /\ last' = r

\* page requests sent so far
NPageReqs == sent["search"] + sent["continue"]

\* page.n counts the page responses and page.token is the _scroll_id string of
\* the last one ("" when it held none); the other fields describe the response
\* being handled and are cleared when the next page request is sent.
\*   shardsFailed  _shards.failed is a number other than 0
\*   pathsBad      one of the four required paths is missing or of the wrong type
\*   ndocs         the length of hits.hits
\*   firstDefect   the position in hits.hits of the first element whose _source
\*                 is absent or not an object, 0 when there is none
\*   total, arrayErr   of a page whose hits.hits is walked: its hits.total,
\*                 and whether the walk ends on malformed array text
\*   gets, puts    the buffers doRequest took from and returned to the pool
\*   gotLen        the length of the buffer when it was taken
\*   args          the total arguments the handler was given for this page
\*   ncalls        the handler invocations for this page
NoPage == [n |-> 0, token |-> "", status |-> "none", shardsFailed |-> FALSE,
           pathsBad |-> FALSE, ndocs |-> 0, firstDefect |-> 0, total |-> 0,
           arrayErr |-> FALSE, gets |-> 0, puts |-> 0, gotLen |-> 0,
           args |-> {}, ncalls |-> 0]

NoProbe == [done |-> FALSE, ok |-> FALSE, len |-> 0]

InitWith(raw, snaps) ==
  /\ snap \in snaps
  /\ pc = "new"
  /\ optSize \in raw
  /\ size = 0
  /\ scrollID = ""
  /\ cursor = 0
  /\ total = 0
  /\ hitsBuf = <<>>
  /\ itErr = nil
  /\ itCalled = FALSE
  /\ bufPool = {}
  /\ buffer = NoBuffer
  /\ err = "none"
  /\ delErr = "none"
  /\ probe = NoProbe
  /\ sent = [o \in Ops |-> 0]
  /\ last = NoReq
  /\ calls = <<>>
  /\ page = NoPage
  /\ issued = ""

\* the size option a session of the paging model is constructed with
MainSizes == {0}

Init == InitWith(MainSizes, Snapshots)

(***************************************************************************)
(* New: the defaults of the size option.                                   *)
(***************************************************************************)
NewSize(s, raw) ==
  IF s = "part_001"
  THEN (IF raw <= 0 THEN DefaultBatchByteSize ELSE raw)
  ELSE (IF raw = 0 THEN DefaultSize ELSE raw)

New ==
  /\ pc = "new"
  /\ optSize' = NewSize(snap, optSize)
  /\ pc' = "ready"
  /\ UNCHANGED <<snap, size, scrollID, cursor, total, hitsBuf, itErr, itCalled,
                 bufPool, buffer, err, delErr, probe, sent, last, calls, page,
                 issued>>

(***************************************************************************)
(* Do: the caller enters Do.  part_001 first estimates the batch size,     *)
(* part_002 builds its first request outside the loop.                     *)
(***************************************************************************)
DoEntry(s) ==
  CASE s = "part_001" -> "estimate"
    [] s = "exporter.go" -> "do"
    [] s = "part_002" -> "first"

DoBegin ==
  /\ pc = "ready"
  /\ pc' = DoEntry(snap)
  /\ UNCHANGED <<snap, engine, err, delErr, probe, sent, last, calls, page, issued>>

\* where Do goes when it returns: exporter.go and part_001 run the deferred
\* deleteScrollID, part_002 has none
AfterReturn(s) == IF s = "part_002" THEN "done" ELSE "defer"

\* Do's handling of a non-nil error of do / doRequest
ConvertErr(e) == IF e = ErrUserCancelled \/ e = EOF THEN nil ELSE e

\* DoReturns of a loop that goes on whatever do returns
DoReturnsLoops(e) == pc' = "do" /\ err' = err

\* do / doRequest returns e to the loop of Do
DoReturns(e) ==
  IF e = nil
  THEN pc' = "do" /\ err' = err
  ELSE pc' = AfterReturn(snap) /\ err' = ConvertErr(e)

(***************************************************************************)
(* estimateBatchSize (part_001).                                           *)
(***************************************************************************)
\* Clamp without its upper bound
ClampNoMax(n) == IF n < MinSize THEN MinSize ELSE n

Clamp(n) == IF n < MinSize THEN MinSize ELSE IF n > MaxSize THEN MaxSize ELSE n

EstByteSize(S) ==
  LET est == S \div Sample IN IF est = 0 THEN FallbackByteSize ELSE est

\* e.size for a probe body of S > 0 bytes and BatchByteSize B
estimateBatchSize(S, B) == Clamp(B \div EstByteSize(S))

SendProbe ==
  /\ pc = "estimate"
  /\ Send(Req("probe", "POST", SearchPath, FALSE, ""))
  /\ pc' = "probing"
  /\ UNCHANGED <<snap, engine, err, delErr, probe, calls, page, issued>>

\* ProbeErr without the test for an empty body
ProbeErrNoEmpty(ok, S) == IF ~ok THEN ErrTransport ELSE nil

\* the error estimateBatchSize returns for a probe that failed (ok = FALSE)
\* or answered with a body of S bytes
ProbeErr(ok, S) ==
  IF ~ok THEN ErrTransport ELSE IF S = 0 THEN ErrEmptyProbe ELSE nil

RecvProbe(ok, S) ==
  /\ pc = "probing"
  /\ probe' = [done |-> TRUE, ok |-> ok, len |-> S]
  /\ IF ProbeErr(ok, S) # nil
     THEN /\ err' = ProbeErr(ok, S)
          /\ pc' = AfterReturn(snap)
          /\ size' = size
     ELSE /\ size' = estimateBatchSize(S, optSize)
          /\ pc' = "do"
          /\ err' = err
  /\ UNCHANGED <<snap, optSize, scrollID, cursor, total, hitsBuf, itErr, itCalled,
                 bufPool, buffer, delErr, sent, last, calls, page, issued>>

\* probe body lengths of the paging model
MainProbeLens == {0, 10 * Sample}

Probe == \E ok \in BOOLEAN, S \in MainProbeLens : RecvProbe(ok, IF ok THEN S ELSE 0)

(***************************************************************************)
(* One page request: do (exporter.go, part_001), doRequest with            *)
(* buildFirstRequest / buildNextRequest (part_002).                        *)
(***************************************************************************)
\* the scroll-opening search request
FirstRequest == Req("search", "POST", SearchPath, TRUE, "")

\* the request do sends (exporter.go, part_001): chosen by e.scrollID
DoRequest(sid) ==
  IF sid = "" THEN FirstRequest ELSE Req("continue", "POST", ScrollPath, TRUE, sid)

\* buildNextRequest (part_002): built on buildFirstURL
NextRequest(sid) == Req("continue", "POST", SearchPath, TRUE, sid)

\* the page request of the loop of Do
PageRequest(s, sid) == IF s = "part_002" THEN NextRequest(sid) ELSE DoRequest(sid)

\* part_002: Do sends the request of buildFirstRequest before its loop
SendFirst ==
  /\ pc = "first"
  /\ NPageReqs < MaxPages
  /\ Send(FirstRequest)
  /\ pc' = "await"
  /\ page' = [NoPage EXCEPT !.n = page.n, !.token = page.token]
  /\ UNCHANGED <<snap, engine, err, delErr, probe, calls, issued>>

SendPage ==
  /\ pc = "do"
  /\ NPageReqs < MaxPages
  /\ Send(PageRequest(snap, scrollID))
  /\ pc' = "await"
  /\ page' = [NoPage EXCEPT !.n = page.n, !.token = page.token]
  /\ UNCHANGED <<snap, engine, err, delErr, probe, calls, issued>>

\* jsonparser.GetString / GetInt at a path holding v
GetString(v) ==
  IF v.t = "missing" THEN [val |-> "", err |-> KeyPathNotFoundError]
  ELSE IF v.t # "string" THEN [val |-> "", err |-> ErrNotString]
  ELSE [val |-> v.s, err |-> nil]

GetInt(v) ==
  IF v.t = "missing" THEN [val |-> 0, err |-> KeyPathNotFoundError]
  ELSE IF v.t # "number" THEN [val |-> 0, err |-> ErrNotNumber]
  ELSE [val |-> v.n, err |-> nil]

\* ShardsErr without the comparison with 0
ShardsErrUnchecked(v) == GetInt(v).err

\* the check of _shards.failed
ShardsErr(v) ==
  IF GetInt(v).err # nil THEN GetInt(v).err
  ELSE IF GetInt(v).val # 0 THEN ErrShardsFailed
  ELSE nil

\* HitsErr without the check of the type
HitsErrUntyped(h) == IF h.t = "missing" THEN KeyPathNotFoundError ELSE nil

\* the lookup of hits.hits and the check of its type
HitsErr(h) ==
  IF h.t = "missing" THEN KeyPathNotFoundError
  ELSE IF h.t # "array" THEN ErrHitsNotArray
  ELSE nil

\* the error of do up to the walk of hits.hits, nil when the walk starts
ParseErr(r) ==
  IF r.status = "neterr" THEN ErrTransport
  ELSE IF r.status = "non200" THEN ErrStatus
  ELSE IF r.status = "copyerr" THEN ErrCopy
  ELSE IF GetString(r.scroll).err # nil THEN GetString(r.scroll).err
  ELSE IF ShardsErr(r.shards) # nil THEN ShardsErr(r.shards)
  ELSE IF GetInt(r.total).err # nil THEN GetInt(r.total).err
  ELSE HitsErr(r.hits)

\* ScrollIDAfter that assigns whatever the status is
ScrollIDAfterAnyStatus(r, sid) == GetString(r.scroll).val

\* e.scrollID after the response: assigned from GetString once the status is 200
ScrollIDAfter(r, sid) == IF r.status = "ok" THEN GetString(r.scroll).val ELSE sid

\* has the code reached the assignment of total
TotalRead(r) ==
  /\ r.status = "ok"
  /\ GetString(r.scroll).err = nil
  /\ ShardsErr(r.shards) = nil

\* TotalAfter without the assignment from hits.total
TotalAfterStale(s, r, old) == old

\* total after the response: the field e.total of part_002 keeps its value
\* when the assignment is not reached; the local total of do is gone when do
\* returns
TotalAfter(s, r, old) ==
  IF s = "part_002"
  THEN (IF TotalRead(r) THEN GetInt(r.total).val ELSE old)
  ELSE (IF ParseErr(r) = nil THEN GetInt(r.total).val ELSE 0)

\* is the response a 200 whose four required paths have the expected types
\* and whose _shards.failed is 0
Walkable(r) ==
  /\ r.status = "ok"
  /\ r.scroll.t = "string"
  /\ r.shards.t = "number" /\ r.shards.n = 0
  /\ r.total.t = "number"
  /\ r.hits.t = "array"

\* the position of the first defective element of elems, 0 when there is none
FirstDefect(elems) ==
  LET D == {k \in 1..Len(elems) : elems[k] # "source"}
  IN IF D = {} THEN 0 ELSE CHOOSE k \in D : \A j \in D : k <= j

\* the token the response issues, "" when it issues none
Token(r) == IF r.scroll.t = "string" THEN r.scroll.s ELSE ""

\* what the response held, whatever the engine did with it
Held(r, n) ==
  [n |-> n,
   token |-> Token(r),
   status |-> r.status,
   shardsFailed |-> r.shards.t = "number" /\ r.shards.n # 0,
   pathsBad |-> r.status = "ok" /\ (\/ r.scroll.t # "string"
                                    \/ r.shards.t # "number"
                                    \/ r.total.t # "number"
                                    \/ r.hits.t # "array"),
   ndocs |-> Len(r.hits.elems),
   firstDefect |-> FirstDefect(r.hits.elems),
   total |-> IF Walkable(r) THEN r.total.n ELSE 0,
   arrayErr |-> Walkable(r) /\ r.hits.bad,
   gets |-> 0,
   puts |-> 0,
   gotLen |-> 0,
   args |-> {},
   ncalls |-> 0]

RecvPage(r) ==
  /\ pc = "await"
  /\ r.status = "copyerr" => snap = "part_002"
  /\ scrollID' = ScrollIDAfter(r, scrollID)
  /\ total' = TotalAfter(snap, r, total)
  /\ IF Acquires(snap, r)
     THEN \E g \in PoolGet(bufPool) :
            /\ buffer' = (IF ParseErr(r) # nil THEN NoBuffer ELSE Copy(g.buf, r))
            /\ bufPool' = (IF ParseErr(r) # nil
                           THEN PoolPut(g.pool, Reset(Copy(g.buf, r)))
                           ELSE g.pool)
            /\ page' = [Held(r, page.n + 1) EXCEPT
                          !.gets = 1, !.gotLen = g.buf,
                          !.puts = IF ParseErr(r) # nil THEN 1 ELSE 0]
     ELSE /\ page' = Held(r, page.n + 1)
          /\ UNCHANGED <<bufPool, buffer>>
  /\ issued' = (IF Token(r) # "" THEN Token(r) ELSE issued)
  /\ itErr' = nil
  /\ itCalled' = FALSE
  /\ IF ParseErr(r) # nil
     THEN hitsBuf' = <<>> /\ DoReturns(ParseErr(r))
     ELSE hitsBuf' = r.hits.elems /\ pc' = "iterate" /\ err' = err
  /\ UNCHANGED <<snap, optSize, size, cursor, delErr, probe, sent, last, calls>>

Page == \E r \in Responses : RecvPage(r)

(***************************************************************************)
(* The walk of hits.hits: one step per call of the ArrayEach callback.     *)
(***************************************************************************)
\* SourceErr that accepts every element
SourceErrIgnored(el) == nil

\* the lookup of _source in an element
SourceErr(el) ==
  IF el = "nosource" THEN KeyPathNotFoundError
  ELSE IF el = "badsource" THEN ErrMissingSource
  ELSE nil

\* AdvanceCursor without the increment
AdvanceCursorNoInc(s, ret, c) == c

\* the emission counter after the handler returned ret: part_002 tests the
\* callback's err parameter, which ArrayEach always passes as nil, so it
\* always counts
AdvanceCursor(s, ret, c) ==
  IF s = "part_002" THEN c + 1
  ELSE IF ret # nil THEN c ELSE c + 1

\* Dispatches without the early return on itErr
DispatchesAnyway(ie, el) == SourceErr(el) = nil

\* does the callback reach the handler for element el
Dispatches(ie, el) == ie = nil /\ SourceErr(el) = nil

Callback(ret) ==
  /\ pc = "iterate"
  /\ hitsBuf # <<>>
  /\ itCalled' = TRUE
  /\ hitsBuf' = Tail(hitsBuf)
  /\ IF Dispatches(itErr, Head(hitsBuf))
     THEN /\ calls' = Append(calls, [id |-> cursor, ret |-> ret])
          /\ page' = [page EXCEPT !.args = @ \cup {total}, !.ncalls = @ + 1]
          /\ itErr' = ret
          /\ cursor' = AdvanceCursor(snap, ret, cursor)
     ELSE /\ ret = nil
          /\ itErr' = (IF itErr # nil THEN itErr ELSE SourceErr(Head(hitsBuf)))
          /\ UNCHANGED <<calls, cursor, page>>
  /\ UNCHANGED <<snap, pc, optSize, size, scrollID, total, bufPool, buffer, err,
                 delErr, probe, sent, last, issued>>

Element == \E ret \in HandlerRets : Callback(ret)

\* WalkErr without the exhaustion sentinel
WalkErrNoEOF(ie, called) == ie

\* the result of do after ArrayEach returned (its own error is discarded)
WalkErr(ie, called) ==
  IF ie # nil THEN ie ELSE IF ~called THEN EOF ELSE nil

\* ArrayEachDone that lets ArrayEach return with elements left
ArrayEachDoneEarly(buf) == TRUE

\* ArrayEach returns once it has handed every element to the callback
ArrayEachDone(buf) == buf = <<>>

EndPage ==
  /\ pc = "iterate"
  /\ ArrayEachDone(hitsBuf)
  /\ DoReturns(WalkErr(itErr, itCalled))
  /\ itErr' = nil
  /\ itCalled' = FALSE
  /\ total' = (IF snap = "part_002" THEN total ELSE 0)
  /\ IF buffer # NoBuffer
     THEN /\ bufPool' = PoolPut(bufPool, Reset(buffer))
          /\ buffer' = NoBuffer
          /\ page' = [page EXCEPT !.puts = @ + 1]
     ELSE UNCHANGED <<bufPool, buffer, page>>
  /\ UNCHANGED <<snap, optSize, size, scrollID, cursor, hitsBuf, delErr, probe,
                 sent, last, calls, issued>>

(***************************************************************************)
(* The deferred deleteScrollID (exporter.go, part_001).                    *)
(***************************************************************************)
\* AfterDefer with the error of the release replacing Do's result
AfterDeferMasked(e, d) == IF d # nil THEN d ELSE e

\* Do's result after the deferred call returned d: defer discards d
AfterDefer(e, d) == e

DeleteScrollID ==
  /\ pc = "defer"
  /\ IF scrollID = ""
     THEN /\ pc' = "done"
          /\ delErr' = nil
          /\ UNCHANGED <<sent, last>>
     ELSE /\ pc' = "releasing"
          /\ delErr' = delErr
          /\ Send(Req("release", "DELETE", ScrollPath, FALSE, scrollID))
  /\ UNCHANGED <<snap, engine, err, probe, calls, page, issued>>

RecvDelete(d) ==
  /\ pc = "releasing"
  /\ delErr' = d
  /\ err' = AfterDefer(err, d)
  /\ pc' = "done"
  /\ UNCHANGED <<snap, engine, probe, sent, last, calls, page, issued>>

Release == \E d \in {nil, ErrTransport} : RecvDelete(d)

Next ==
  \/ New
  \/ DoBegin
  \/ SendProbe
  \/ Probe
  \/ SendFirst
  \/ SendPage
  \/ Page
  \/ Element
  \/ EndPage
  \/ DeleteScrollID
  \/ Release

Spec == Init /\ [][Next]_vars

(***************************************************************************)
(* The estimator on its own: part_001 sessions over a wide range of        *)
(* BatchByteSize options and probe body lengths, up to the first page      *)
(* request.                                                                *)
(***************************************************************************)
\* probe bodies of q * Sample + r bytes: measured averages 0 .. MaxAvg
ProbeLens == {q * Sample + r : q \in 0..MaxAvg, r \in {0, 1, Sample - 1}}

\* the scales around which a budget changes the regime of the clamp
BudgetScales ==
  {1, MinSize, MinSize * FallbackByteSize, MaxSize, MaxSize * FallbackByteSize}

\* Options.BatchByteSize as the caller sets it
Budgets ==
  {-1, 0, DefaultBatchByteSize}
  \cup {u * sc + d : u \in 1..MaxBudgetUnit, sc \in BudgetScales, d \in {-1, 0, 1}}

EstInit == InitWith(Budgets, {"part_001"})

EstProbe == \E ok \in BOOLEAN, S \in ProbeLens : RecvProbe(ok, IF ok THEN S ELSE 0)

EstNext ==
  \/ New
  \/ DoBegin
  \/ SendProbe
  \/ EstProbe

EstSpec == EstInit /\ [][EstNext]_vars

(***************************************************************************)
(* Sessions against a well-behaved backend holding finitely many           *)
(* documents: every request is answered, every page response is a 200 with *)
(* a non-empty token, no failed shard and a well-formed array of elements  *)
(* with an object _source, and the backend hands out at most LiveDocs      *)
(* documents in all, so that an empty page follows the last one.  The      *)
(* handler returns every time, with any value.  The thread of control,     *)
(* the backend and the handler all take their next step: weak fairness.    *)
(***************************************************************************)
\* the documents the backend holds at most: one page request for each, and
\* one for the empty page
LiveDocs == MaxPages - 1

LiveHeaders ==
  {h \in Headers : h.scroll.t = "string" /\ h.scroll.s # "" /\ HeaderOk(h)}

\* the pages the backend may answer with once it has handed out delivered
\* documents: at most the documents left, none when there is none left
LiveResponses(delivered) ==
  {Resp("ok", h, JHits("array", Elems(n, 0, "source"), FALSE)) :
     h \in LiveHeaders,
     n \in {k \in 0..MaxHits : delivered + k <= LiveDocs}}

\* every document handed out so far was dispatched when a page is requested
LivePage == \E r \in LiveResponses(Len(calls)) : RecvPage(r)

LiveNext ==
  \/ New
  \/ DoBegin
  \/ SendProbe
  \/ Probe
  \/ SendFirst
  \/ SendPage
  \/ LivePage
  \/ Element
  \/ EndPage
  \/ DeleteScrollID
  \/ Release

LiveSpec == Init /\ [][LiveNext]_vars /\ WF_vars(LiveNext)

(***************************************************************************)
(* Vocabulary of the properties.                                           *)
(***************************************************************************)
\* Do has its result: it is returning (deferred release) or has returned
Returned == pc \in {"defer", "releasing", "done"}

\* Do returns a non-nil error
Failed == Returned /\ err # nil

\* no page request was sent after the response now held in page
NoLaterPageRequest == pc # "do" /\ pc # "await" /\ NPageReqs = page.n

\* the snapshots that defer deleteScrollID
Releasing == snap \in {"exporter.go", "part_001"}

\* the handler invocations that returned e
Returning(e) == {i \in 1..Len(calls) : calls[i].ret = e}

(***************************************************************************)
(* C1: across a whole session the id argument of the n-th handler          *)
(* invocation (counting from 0) is n: ids start at 0, grow by 1 per        *)
(* invocation and are not reset at a page boundary.                        *)
(***************************************************************************)
C1_IdsCountInvocations == \A i \in 1..Len(calls) : calls[i].id = i - 1

\* the third invocation of a session is the first one of its second page
C1_Witness == Len(calls) = 3 /\ page.n = 2 /\ page.ncalls = 1 /\ page.ndocs = 2

(***************************************************************************)
(* C2: once the handler returned ErrUserCancelled, that invocation is the  *)
(* last one, no further search or continuation request is sent, and Do     *)
(* returns nil.                                                            *)
(***************************************************************************)
C2_CancelStops ==
  \A i \in Returning(ErrUserCancelled) :
    /\ i = Len(calls)
    /\ NoLaterPageRequest
    /\ pc = "iterate" \/ (Returned /\ err = nil)

\* cancelled on the first element of a two-element second page; Do returned
C2_Witness ==
  /\ Returning(ErrUserCancelled) # {}
  /\ pc = "done"
  /\ page.n = 2 /\ page.ndocs = 2 /\ page.ncalls = 1

(***************************************************************************)
(* C3 (as claimed): whenever the handler returned an error other than      *)
(* ErrUserCancelled, Do stops and returns a non-nil error.                 *)
(***************************************************************************)
C3_HandlerErrorFails ==
  \A i \in 1..Len(calls) :
    calls[i].ret \notin {nil, ErrUserCancelled} => pc = "iterate" \/ Failed

(***************************************************************************)
(* C4: a page response whose _shards.failed is not 0 gets no handler       *)
(* invocation, however many elements hits.hits holds; Do returns a non-nil *)
(* error and sends no further page request.                                *)
(***************************************************************************)
C4_ShardFailureFatal ==
  page.shardsFailed => page.ncalls = 0 /\ Failed /\ NoLaterPageRequest

\* a second page, well-formed and with documents, but with failed shards
C4_Witness ==
  /\ page.shardsFailed /\ ~page.pathsBad /\ page.ndocs > 0
  /\ page.n = 2 /\ pc = "done"

(***************************************************************************)
(* C5: a page response in which one of the four required paths is missing  *)
(* or of the wrong type gets no handler invocation, and Do returns a       *)
(* non-nil error.                                                          *)
(***************************************************************************)
C5_BadPathFatal == page.pathsBad => page.ncalls = 0 /\ Failed

\* hits.hits is present but not an array
C5_Witness == page.pathsBad /\ err = ErrHitsNotArray /\ pc = "done"

(***************************************************************************)
(* C6: a well-formed page with zero shard failures and no documents ends   *)
(* the session: no handler invocation for it, no further page request, Do  *)
(* returns nil.                                                            *)
(***************************************************************************)
EmptyPage ==
  /\ page.status = "ok" /\ ~page.pathsBad /\ ~page.shardsFailed
  /\ page.ndocs = 0 /\ ~page.arrayErr

C6_ExhaustionEndsCleanly ==
  EmptyPage =>
    /\ page.ncalls = 0
    /\ NoLaterPageRequest
    /\ pc = "iterate" \/ (Returned /\ err = nil)

\* the empty page follows a page of documents
C6_Witness == EmptyPage /\ pc = "done" /\ page.n = 2 /\ Len(calls) = 2

(***************************************************************************)
(* C7 (as claimed, for the snapshots that defer deleteScrollID): when Do   *)
(* has returned and the backend issued a token in the session, exactly one *)
(* release request was sent, it is the last request, and it carries the    *)
(* token most recently issued.                                             *)
(***************************************************************************)
C7_ReleasedOnce ==
  (Releasing /\ pc = "done" /\ issued # "") =>
    sent["release"] = 1 /\ last.op = "release" /\ last.tok = issued

(***************************************************************************)
(* C8: the result of Do does not depend on the release: no step of the     *)
(* deferred deleteScrollID, whether its request succeeds or fails, changes *)
(* Do's result.                                                            *)
(***************************************************************************)
C8_ReleaseKeepsResult == [][Returned => err' = err]_vars

\* the release failed and Do returned nil
C8_Witness == pc = "done" /\ delErr = ErrTransport /\ err = nil

(***************************************************************************)
(* C9: for a probe body of S > 0 bytes and a budget B > 0, with N = 512,   *)
(* the page cardinality is floor(B / avg) clamped to [10, 10000], avg      *)
(* being floor(S / N), or 512 when that is 0; it is 10 for B < 10 * avg    *)
(* and 10000 for B >= 10000 * avg.                                         *)
(***************************************************************************)
Estimated == probe.done /\ probe.ok /\ probe.len > 0

C9_EstimateClamped ==
  Estimated =>
    LET avg == IF probe.len < 512 THEN 512 ELSE probe.len \div 512
    IN /\ optSize > 0
       /\ size >= 10 /\ size <= 10000
       \* size is floor(optSize / avg) unless the clamp holds it back
       /\ size > 10 => size * avg <= optSize
       /\ size < 10000 => optSize < (size + 1) * avg
       /\ optSize < 10 * avg => size = 10
       /\ optSize >= 10000 * avg => size = 10000

\* a measured average and a cardinality strictly inside the clamp
C9_Witness ==
  Estimated /\ probe.len >= 2 * Sample /\ size > MinSize /\ size < MaxSize

(***************************************************************************)
(* C10: when the size probe fails (request error or empty body), Do        *)
(* returns a non-nil error, no page request is sent and the handler is     *)
(* not invoked.                                                            *)
(***************************************************************************)
ProbeFailed == probe.done /\ (~probe.ok \/ probe.len = 0)

C10_ProbeFailureFatal ==
  ProbeFailed => Failed /\ NPageReqs = 0 /\ calls = <<>>

\* the probe answered with an empty body and Do returned
C10_Witness == probe.done /\ probe.ok /\ probe.len = 0 /\ pc = "done"

(***************************************************************************)
(* C11  A backend that never returns a non-empty cursor token makes the    *)
(* session end with a structural error: when Do has returned after at      *)
(* least one 200 response, no response of the session having carried a     *)
(* non-empty _scroll_id, no shard having failed and the handler having     *)
(* returned nil every time, the result of Do is a structural error.        *)
(***************************************************************************)
\* the errors of a response whose shape is not the expected one
StructuralErrs ==
  {KeyPathNotFoundError, ErrNotString, ErrNotNumber, ErrHitsNotArray, ErrMissingSource}

\* the handler returned nil on every invocation so far
HandlerAlwaysNil == \A i \in 1..Len(calls) : calls[i].ret = nil

\* page responses were received and none carried a non-empty token
NoTokenSession == page.n >= 1 /\ page.status = "ok" /\ issued = ""

C11_NoTokenFails ==
  (Returned /\ NoTokenSession /\ ~page.shardsFailed /\ HandlerAlwaysNil)
    => err \in StructuralErrs

(***************************************************************************)
(* C12  On every handler invocation the total argument is the hits.total   *)
(* of the response of the page that holds the dispatched document: the     *)
(* total arguments given for the page being handled are no other value     *)
(* than the hits.total that page's response reported.                      *)
(***************************************************************************)
C12_TotalIsPageTotal == page.args \subseteq {page.total}

\* both documents of a second page were dispatched with that page's total
C12_Witness ==
  /\ page.n = 2 /\ page.ncalls = 2 /\ Len(calls) = 4
  /\ page.total = 7 /\ page.args = {7}

(***************************************************************************)
(* C13  Requests and dispatch are strictly sequential: at most one backend *)
(* request is in flight at any time, and while a request is in flight the  *)
(* engine holds no element of an earlier page that the walk has not yet    *)
(* handed to the callback; elements are held only during the walk.         *)
(***************************************************************************)
\* requests sent and not yet answered
InFlight ==
  (NPageReqs - page.n)
  + (sent["probe"] - (IF probe.done THEN 1 ELSE 0))
  + (sent["release"] - (IF delErr \in {nil, ErrTransport} /\ sent["release"] > 0 THEN 1 ELSE 0))

C13_Sequential ==
  /\ InFlight \in {0, 1}
  /\ InFlight = 1 => hitsBuf = <<>>
  /\ hitsBuf # <<>> => pc = "iterate"

\* the second page is requested after both documents of the first were handled
C13_Witness ==
  /\ pc = "await" /\ InFlight = 1 /\ page.n = 1 /\ sent["continue"] = 1
  /\ Len(calls) = 2

(***************************************************************************)
(* C14  Every continuation request carries as its scroll_id the token of   *)
(* the most recently received page response, and the scroll-opening        *)
(* search request is sent only while no token has been received: while a   *)
(* page request is in flight, a continuation carries page.token and a      *)
(* search means no response has issued a token so far.                     *)
(***************************************************************************)
C14_CarriesLatestToken ==
  pc = "await" =>
    /\ last.op = "continue" => last.tok = page.token
    /\ last.op = "search" => issued = ""

(***************************************************************************)
(* C15  An element of hits.hits without a _source, or with a _source that  *)
(* is not an object, is not skipped: the handler is invoked neither for    *)
(* it nor for a later element of the page, no page request follows, and    *)
(* Do returns a non-nil error (unless the handler itself had already       *)
(* stopped the walk of this page before that element).                     *)
(***************************************************************************)
\* the handler returned nil on every invocation for the page being handled
PageCallsNil ==
  \A i \in (Len(calls) - page.ncalls + 1)..Len(calls) : calls[i].ret = nil

C16_ArrayErrorSurfaced ==
  (page.arrayErr /\ page.firstDefect = 0 /\ PageCallsNil)
    => (pc = "iterate" \/ Failed)

(***************************************************************************)
(* C17  A page request that fails at the transport level or is answered    *)
(* with a status other than 200 ends the session at once: on the step that *)
(* receives the failure and on every later step, Do has a non-nil result,  *)
(* no page request follows, the handler is not invoked for that request,   *)
(* and the stored cursor token and the emission counter keep the values    *)
(* they had before the step.                                               *)
(***************************************************************************)
\* the outcomes of a page request without a 200 response
RequestFailures == {"neterr", "non200"}

C17_FailedRequestFrame ==
  [][page'.status \in RequestFailures =>
       /\ Failed' /\ NoLaterPageRequest' /\ page'.ncalls = 0
       /\ scrollID' = scrollID /\ cursor' = cursor /\ calls' = calls]_vars

\* the continuation request of a session holding token t1 and counter 2 was
\* answered with a status other than 200, and Do has returned
C17_Witness ==
  /\ page.status = "non200" /\ page.n = 2 /\ pc = "done"
  /\ scrollID = "t1" /\ cursor = 2 /\ err = ErrStatus

(***************************************************************************)
(* C18  In every snapshot and every reachable state, the emission counter  *)
(* (e.cursor, e.count in part_002) is the number of handler invocations    *)
(* that returned nil: it advances by 1 after a successful call and not at  *)
(* all after a call that returned ErrUserCancelled or another error.       *)
(***************************************************************************)
\* handler invocations that returned nil
NilCalls == Cardinality({i \in 1..Len(calls) : calls[i].ret = nil})

C18_CounterCountsSuccesses == cursor = NilCalls

(***************************************************************************)
(* C19  In every snapshot only the first page request of a session goes to *)
(* the index search endpoint; every later page request is a POST to the    *)
(* continue-scan endpoint /_search/scroll carrying the keep-alive and the  *)
(* current cursor token.  Stated of the page request in flight.            *)
(***************************************************************************)
C19_Endpoints ==
  pc = "await" =>
    /\ last.method = "POST" /\ last.scroll
    /\ NPageReqs = 1 => last.path = SearchPath
    /\ NPageReqs > 1 => last.path = ScrollPath /\ last.tok = scrollID

(***************************************************************************)
(* C20  The pooled buffers of part_002: every buffer taken from the pool   *)
(* is empty when acquired; every acquired buffer is reset and returned to  *)
(* the pool exactly once on every exit of doRequest, and not before the    *)
(* walk of the page has ended; at most one buffer is held at a time.       *)
(***************************************************************************)
C20_PooledBuffers ==
  /\ page.gotLen = 0
  /\ \A b \in bufPool : b = 0
  /\ page.gets - page.puts \in {0, 1}
  /\ buffer # NoBuffer <=> (page.gets = 1 /\ page.puts = 0)
  /\ (snap = "part_002" /\ page.status \in {"ok", "copyerr"}) => page.gets = 1
  /\ (snap = "part_002" /\ pc = "iterate") => buffer # NoBuffer
  /\ pc # "iterate" => (buffer = NoBuffer /\ page.puts = page.gets)

\* the read of the second page's body failed after two documents of the
\* first page were handled: the buffer taken for it is back in the pool, empty,
\* when Do has returned
C20_Witness ==
  /\ snap = "part_002" /\ pc = "done" /\ page.n = 2 /\ page.status = "copyerr"
  /\ page.gets = 1 /\ page.puts = 1 /\ bufPool = {0} /\ Len(calls) = 2

(***************************************************************************)
(* C21  Against a well-behaved backend holding finitely many documents and *)
(* a handler that always returns, Do eventually returns: every fair        *)
(* behaviour of LiveSpec reaches the state in which Do has returned.       *)
(***************************************************************************)
C21_DoReturns == <>(pc = "done")

\* exhaustion: two pages of one document each, then the empty page, nil
C21_Witness ==
  /\ pc = "done" /\ err = nil /\ page.n = 3 /\ EmptyPage
  /\ Len(calls) = 2 /\ HandlerAlwaysNil
====
